---- MODULE Spec2Model ----
(***************************************************************************)
(* Model of the two programs of the repository:                            *)
(*   - src/reamp.py          the reamp command-line script                 *)
(*   - src/nam/train/gui.py  the training GUI                              *)
(*                                                                         *)
(* Python strings are modelled as sequences of one-character strings, so   *)
(* that str.split, str.rstrip, re.sub, int() and str() are computed        *)
(* character by character.                                                 *)
(***************************************************************************)
EXTENDS Integers, Sequences, FiniteSets, TLC

(***************************************************************************)
(* Bounds of the model.                                                    *)
(***************************************************************************)
\* longest stem of an input file name of the reamp script
MaxStem == 2
\* most files chosen at once in the multi-file chooser
MaxFiles == 2
\* most advanced-options windows open at the same time
MaxDialogs == 1

(***************************************************************************)
(* Strings.                                                                *)
(***************************************************************************)
\* all sequences over alphabet A of length at most n
BoundedSeq(A, n) == UNION {[1..k -> A] : k \in 0..n}

\* Python's Optional: None, or a value
None == [none |-> TRUE, val |-> <<>>]
Some(v) == [none |-> FALSE, val |-> v]

DotWav == <<".", "w", "a", "v">>
ReampedWav == <<"_", "r", "e", "a", "m", "p", "e", "d">> \o DotWav

\* the characters str.rstrip() and int() treat as whitespace
Whitespace == {" ", "\n", "\t"}

\* s.rstrip(chars): s without its longest tail made of characters of chars
RECURSIVE RStrip(_, _)
RStrip(s, chars) ==
    IF s # <<>> /\ s[Len(s)] \in chars
    THEN RStrip(SubSeq(s, 1, Len(s) - 1), chars)
    ELSE s

\* s.lstrip(chars)
RECURSIVE LStrip(_, _)
LStrip(s, chars) ==
    IF s # <<>> /\ s[1] \in chars THEN LStrip(Tail(s), chars) ELSE s

\* the set of characters of a string
Chars(s) == {s[i] : i \in 1..Len(s)}

\* whether s ends with suffix t
EndsWith(s, t) ==
    /\ Len(s) >= Len(t)
    /\ SubSeq(s, Len(s) - Len(t) + 1, Len(s)) = t

(***************************************************************************)
(* The reamp script, src/reamp.py.                                         *)
(***************************************************************************)
\* the reamp script's state
VARIABLES
    args,         \* the parsed command line: input_file, output_file, target_file
    fs,           \* the paths that exist as files
    pc,           \* the script's position
    output_file,  \* the resolved output path
    x,            \* the input WAV as read: rate and sampwidth
    bits,         \* the bit depth looked up
    x_data,       \* the normalised input
    model,        \* whether the model and its checkpoint are loaded
    y,            \* the prediction
    written,      \* the output WAV as written
    plot,         \* whether the target was read and the comparison plotted
    outcome       \* how the script ended

reampVars ==
    <<args, fs, pc, output_file, x, bits, x_data, model, y, written, plot, outcome>>

\* the training GUI's state
VARIABLES
    path,              \* _PathButton._path of the three path buttons
    label,             \* _PathButton._label of the three path buttons
    button_train,      \* the state of the Train button
    advanced_options,  \* _GUI.advanced_options
    dialogs,           \* the advanced-options windows that are open
    calls,             \* the calls the last handler made to nam.train.core
    raised             \* the exception that left the last handler, or "none"

guiVars == <<path, label, button_train, advanced_options, dialogs, calls, raised>>

vars == <<reampVars, guiVars>>

SampWidths == {1, 2, 3, 4}
Rates == {44100, 48000}

\* _sampwidth_to_bits: the table, and the widths it holds
SampwidthTable == (2 :> 16) @@ (3 :> 24) @@ (4 :> 32)
\* a slip in the divisor: 2 ** bits
DivisorExp_FullBits(b) == b

\* a divisor 2 ** (bits - 1) is kept as its exponent: 2 ** 31 is beyond the
\* integers TLC computes with
DivisorExp(b) == b - 1

\* the default output name of lines 49-53: input_file.rstrip(".wav") + "_reamped.wav"
DefaultOutput(input_file) == RStrip(input_file, Chars(DotWav)) \o ReampedWav

\* the names the command line is drawn from
StemAlphabet == {"r", "a", "w"}
InputFiles == {s \o DotWav : s \in BoundedSeq(StemAlphabet, MaxStem)}
OutputArg == <<"o", ".", "w", "a", "v">>
TargetArg == <<"t", ".", "w", "a", "v">>

\* the input name with its ".wav" suffix cut off, for the names of InputFiles
StemOf(input_file) == SubSeq(input_file, 1, Len(input_file) - Len(DotWav))

ReampInit ==
    /\ \E i \in InputFiles :
       \E o \in {None, Some(OutputArg)} :
       \E t \in {None, Some(TargetArg), Some(OutputArg)} :
          /\ args = [input_file |-> i, output_file |-> o, target_file |-> t]
          /\ fs \in SUBSET {i, OutputArg, TargetArg, DefaultOutput(i),
                            StemOf(i) \o ReampedWav}
    /\ pc = "resolve"
    /\ output_file = None
    /\ x = None
    /\ bits = None
    /\ x_data = None
    /\ model = FALSE
    /\ y = None
    /\ written = None
    /\ plot = FALSE
    /\ outcome = "running"

\* the script stops: exit(1), or an uncaught exception
Stop(how) ==
    /\ pc' = "stopped"
    /\ outcome' = how

\* lines 49-53: output_file = args.output_file, or the default
ResolveOutput ==
    /\ pc = "resolve"
    /\ output_file' = IF ~args.output_file.none
                      THEN args.output_file
                      ELSE Some(DefaultOutput(args.input_file))
    /\ pc' = "check"
    /\ UNCHANGED <<args, fs, x, bits, x_data, model, y, written, plot, outcome>>
    /\ UNCHANGED guiVars

\* os.path.isfile(path): None is no path, and raises TypeError
IsFile(p) == p.val \in fs

\* lines 55-57: the existence check, made on args.output_file
CheckExists ==
    /\ pc = "check"
    /\ IF args.output_file.none
       THEN Stop("TypeError")
       ELSE IF IsFile(args.output_file)
            THEN Stop("exit 1")
            ELSE pc' = "read" /\ outcome' = outcome
    /\ UNCHANGED <<args, fs, output_file, x, bits, x_data, model, y, written, plot>>
    /\ UNCHANGED guiVars

\* lines 59-60: wavio.read(args.input_file); the file's header is the environment's
ReadInput ==
    /\ pc = "read"
    /\ IF args.input_file \in fs
       THEN \E rate \in Rates, sampwidth \in SampWidths :
               /\ x' = Some([rate |-> rate, sampwidth |-> sampwidth])
               /\ pc' = "lookup"
               /\ outcome' = outcome
       ELSE Stop("FileNotFoundError") /\ x' = x
    /\ UNCHANGED <<args, fs, output_file, bits, x_data, model, y, written, plot>>
    /\ UNCHANGED guiVars

\* lines 61-62: bits = _sampwidth_to_bits(sampwidth); x_data = data / 2 ** (bits - 1)
Lookup ==
    /\ pc = "lookup"
    /\ IF x.val.sampwidth \in DOMAIN SampwidthTable
       THEN /\ bits' = Some(SampwidthTable[x.val.sampwidth])
            /\ x_data' = Some([divided_by |-> DivisorExp(bits'.val)])
            /\ pc' = "load"
            /\ outcome' = outcome
       ELSE Stop("KeyError") /\ bits' = bits /\ x_data' = x_data
    /\ UNCHANGED <<args, fs, output_file, x, model, y, written, plot>>
    /\ UNCHANGED guiVars

\* lines 64-65: models.from_json and load_state_dict; either file may be bad
LoadModel ==
    /\ pc = "load"
    /\ \E ok \in BOOLEAN :
          IF ok
          THEN model' = TRUE /\ pc' = "predict" /\ outcome' = outcome
          ELSE model' = model /\ Stop("LoadError")
    /\ UNCHANGED <<args, fs, output_file, x, bits, x_data, y, written, plot>>
    /\ UNCHANGED guiVars

\* lines 66-69: y = model.predict_sequence(x_data), in the normalised range
Predict ==
    /\ pc = "predict"
    /\ y' = Some(x_data.val)
    /\ pc' = "write"
    /\ UNCHANGED <<args, fs, output_file, x, bits, x_data, model, written, plot,
                   outcome>>
    /\ UNCHANGED guiVars

\* lines 70-72: wavio.write(output_file, y * 2 ** (bits - 1), rate, sampwidth=sampwidth)
WriteOutput ==
    /\ pc = "write"
    /\ written' = Some([path |-> output_file.val,
                        multiplied_by |-> DivisorExp(bits.val),
                        rate |-> x.val.rate,
                        sampwidth |-> x.val.sampwidth])
    /\ fs' = fs \cup {output_file.val}
    /\ pc' = "target"
    /\ UNCHANGED <<args, output_file, x, bits, x_data, model, y, plot, outcome>>
    /\ UNCHANGED guiVars

\* a slip in lines 74-82: the target is read whenever it is given, file or not
Target_NoIsFile ==
    /\ pc = "target"
    /\ IF ~args.target_file.none
       THEN IF IsFile(args.target_file)
            THEN plot' = TRUE /\ Stop("exit 0")
            ELSE plot' = plot /\ Stop("FileNotFoundError")
       ELSE plot' = plot /\ Stop("exit 0")
    /\ UNCHANGED <<args, fs, output_file, x, bits, x_data, model, y, written>>
    /\ UNCHANGED guiVars

\* lines 74-82: read the target and plot, when it is given and is a file
Target ==
    /\ pc = "target"
    /\ IF ~args.target_file.none /\ IsFile(args.target_file)
       THEN \E sampwidth \in SampWidths :
               IF sampwidth \in DOMAIN SampwidthTable
               THEN plot' = TRUE /\ Stop("exit 0")
               ELSE plot' = plot /\ Stop("KeyError")
       ELSE plot' = plot /\ Stop("exit 0")
    /\ UNCHANGED <<args, fs, output_file, x, bits, x_data, model, y, written>>
    /\ UNCHANGED guiVars

ReampNext ==
    \/ ResolveOutput
    \/ CheckExists
    \/ ReadInput
    \/ Lookup
    \/ LoadModel
    \/ Predict
    \/ WriteOutput
    \/ Target

(***************************************************************************)
(* The training GUI, src/nam/train/gui.py.                                 *)
(***************************************************************************)
_DEFAULT_NUM_EPOCHS == 100
_DEFAULT_DELAY == None

\* the three path buttons of _GUI.__init__, each with its info_str and _PathType
PathButtons == {"input", "output", "destination"}
InfoStr == [b \in PathButtons |->
              CASE b = "input" -> "Input audio"
                [] b = "output" -> "Output audio"
                [] b = "destination" -> "Train destination"]
PathType == [b \in PathButtons |->
              CASE b = "input" -> "file"
                [] b = "output" -> "multifile"
                [] b = "destination" -> "directory"]

\* what the choosers offer
InputPaths == {<<"i", ".", "w", "a", "v">>}
Directories == {<<"m">>, <<"n">>}
OutputPaths ==
    { <<"d", "/", "t", ".", "w", "a", "v">>,
      <<"a", ".", "w", "a", "v", ".", "w", "a", "v">>,
      <<"t", ".", "W", "A", "V">>,
      <<"t", ".", "w", "a", "v", "\n">>,
      <<"x", ".", "w", "a", "v", "/", "t">> }

\* a chooser's results: "" when cancelled, else the path, the directory or the
\* tuple of files chosen
ChooserResults(b) ==
    {<<>>} \cup
    CASE PathType[b] = "file" -> InputPaths
      [] PathType[b] = "directory" -> Directories
      [] PathType[b] = "multifile" ->
            {fl \in BoundedSeq(OutputPaths, MaxFiles) :
                /\ fl # <<>>
                /\ \A i, j \in 1..Len(fl) : i # j => fl[i] # fl[j]}

\* _PathButton._set_text: the label for a stored path
SetText(b, p) ==
    IF p.none
    THEN [fg |-> "red", info |-> InfoStr[b], text |-> "is not set!", val |-> <<>>]
    ELSE [fg |-> "black", info |-> InfoStr[b], text |-> "set to",
          val |-> IF PathType[b] = "multifile" /\ Len(p.val) = 1
                  THEN p.val[1]
                  ELSE p.val]

\* a slip in _set_val: a cancelled chooser clears the stored path
StorePath_ClearsOnCancel(p, res) == IF res # <<>> THEN Some(res) ELSE None

\* _PathButton._set_val, lines 120-121: the path stored after a chooser's result
StorePath(p, res) == IF res # <<>> THEN Some(res) ELSE p

\* a slip in _check_button_states: the destination is left out of the check
CheckButtonStates_NoDestination(paths) ==
    IF \E b \in {"input", "output"} : paths[b].none THEN "disabled" ELSE "normal"

\* _GUI._check_button_states: the Train button's state for the stored paths
CheckButtonStates(paths) ==
    IF \E b \in PathButtons : paths[b].none THEN "disabled" ELSE "normal"

GUIInit ==
    /\ path = [b \in PathButtons |-> None]
    /\ label = [b \in PathButtons |-> SetText(b, None)]
    /\ button_train = CheckButtonStates([b \in PathButtons |-> None])
    /\ advanced_options = [architecture |-> "standard",
                           num_epochs |-> _DEFAULT_NUM_EPOCHS,
                           delay |-> _DEFAULT_DELAY]
    /\ dialogs = <<>>
    /\ calls = <<>>
    /\ raised = "none"

\* _PathButton._set_val: a press of path button b, the chooser returning res;
\* the hook is _GUI._check_button_states
SetVal(b, res) ==
    /\ path' = [path EXCEPT ![b] = StorePath(path[b], res)]
    /\ label' = [label EXCEPT ![b] = SetText(b, path'[b])]
    /\ button_train' = CheckButtonStates(path')
    /\ calls' = <<>>
    /\ raised' = "none"
    /\ UNCHANGED <<advanced_options, dialogs>>
    /\ UNCHANGED reampVars

PressPathButton == \E b \in PathButtons : \E res \in ChooserResults(b) : SetVal(b, res)

\* file.split("/")[-1]: what follows the last "/"
RECURSIVE LastSegment(_)
LastSegment(s) ==
    IF \E i \in 1..Len(s) : s[i] = "/"
    THEN LastSegment(Tail(s))
    ELSE s

\* re.sub(r"\.wav$", "", s): "$" matches at the end of the string and also
\* just before a newline that ends the string
SubWavAtEnd(s) ==
    IF EndsWith(s, DotWav)
    THEN SubSeq(s, 1, Len(s) - Len(DotWav))
    ELSE IF EndsWith(s, DotWav \o <<"\n">>)
         THEN SubSeq(s, 1, Len(s) - Len(DotWav) - 1) \o <<"\n">>
         ELSE s

\* line 254: modelname = re.sub(r"\.wav$", "", file.split("/")[-1])
ModelName(file) == SubWavAtEnd(LastSegment(file))

\* the call of core.train of lines 256-269
TrainCall(file, returned) ==
    [op |-> "train",
     input_path |-> path["input"].val,
     output_path |-> file,
     train_path |-> path["destination"].val,
     epochs |-> advanced_options.num_epochs,
     delay |-> advanced_options.delay,
     architecture |-> advanced_options.architecture,
     modelname |-> ModelName(file),
     returned |-> returned]

\* the call of trained_model.net.export of lines 272-274
ExportCall(file, returned) ==
    [op |-> "export",
     outdir |-> path["destination"].val,
     modelname |-> ModelName(file),
     returned |-> returned]

\* the faults a Train action can meet: none, or the call that raises
NoFault == [at |-> 0, op |-> "none"]
Faults(file_list) == {NoFault} \cup [at : 1..Len(file_list), op : {"train", "export"}]

\* a slip in _train: an exception of core.train is swallowed and the loop goes on
RECURSIVE TrainLoop_GoesOn(_, _, _)
TrainLoop_GoesOn(file_list, i, fault) ==
    IF i > Len(file_list)
    THEN <<>>
    ELSE IF fault = [at |-> i, op |-> "train"]
         THEN <<TrainCall(file_list[i], FALSE)>>
              \o TrainLoop_GoesOn(file_list, i + 1, fault)
         ELSE IF fault = [at |-> i, op |-> "export"]
              THEN <<TrainCall(file_list[i], TRUE), ExportCall(file_list[i], FALSE)>>
              ELSE <<TrainCall(file_list[i], TRUE), ExportCall(file_list[i], TRUE)>>
                   \o TrainLoop_GoesOn(file_list, i + 1, fault)

\* the loop of lines 252-275 from file i on: the calls made, in order
RECURSIVE TrainLoop(_, _, _)
TrainLoop(file_list, i, fault) ==
    IF i > Len(file_list)
    THEN <<>>
    ELSE IF fault = [at |-> i, op |-> "train"]
         THEN <<TrainCall(file_list[i], FALSE)>>
         ELSE IF fault = [at |-> i, op |-> "export"]
              THEN <<TrainCall(file_list[i], TRUE), ExportCall(file_list[i], FALSE)>>
              ELSE <<TrainCall(file_list[i], TRUE), ExportCall(file_list[i], TRUE)>>
                   \o TrainLoop(file_list, i + 1, fault)

\* _GUI._train: a press of the Train button, which a disabled button ignores
Train ==
    /\ button_train = "normal"
    /\ \E fault \in Faults(path["output"].val) :
          /\ calls' = TrainLoop(path["output"].val, 1, fault)
          /\ raised' = IF fault = NoFault THEN "none" ELSE "Exception"
    /\ UNCHANGED <<path, label, button_train, advanced_options, dialogs>>
    /\ UNCHANGED reampVars

(***************************************************************************)
(* The advanced-options window.                                            *)
(***************************************************************************)
\* the choices of core.Architecture
Architectures == {"standard", "lite"}

DigitChar == <<"0", "1", "2", "3", "4", "5", "6", "7", "8", "9">>
Digits == {DigitChar[i] : i \in 1..10}
DigitVal(c) == (CHOOSE i \in 1..10 : DigitChar[i] = c) - 1

\* str(n) of an integer
RECURSIVE NatStr(_)
NatStr(n) ==
    IF n < 10
    THEN <<DigitChar[n + 1]>>
    ELSE NatStr(n \div 10) \o <<DigitChar[(n % 10) + 1]>>
Str(n) == IF n < 0 THEN <<"-">> \o NatStr(-n) ELSE NatStr(n)

\* the value of a string of digits
RECURSIVE DigitsVal(_)
DigitsVal(s) ==
    IF s = <<>>
    THEN 0
    ELSE 10 * DigitsVal(SubSeq(s, 1, Len(s) - 1)) + DigitVal(s[Len(s)])

\* the result of a conversion: a value (an integer, the string "null", or
\* None), or the exception it raises
Value(v) == [raises |-> "none", none |-> FALSE, null |-> FALSE, val |-> v]
NullString == [raises |-> "none", none |-> FALSE, null |-> TRUE, val |-> 0]
NoValue == [raises |-> "none", none |-> TRUE, null |-> FALSE, val |-> 0]
Raises(e) == [raises |-> e, none |-> FALSE, null |-> FALSE, val |-> 0]

\* int(val) of a string: blanks around, a sign, digits; ValueError otherwise
IntOf(val) ==
    LET t == RStrip(LStrip(val, Whitespace), Whitespace)
        signed == t # <<>> /\ t[1] \in {"+", "-"}
        d == IF signed THEN Tail(t) ELSE t
    IN  IF d # <<>> /\ \A i \in 1..Len(d) : d[i] \in Digits
        THEN Value(IF signed /\ t[1] = "-" THEN -DigitsVal(d) ELSE DigitsVal(d))
        ELSE Raises("ValueError")

\* a slip in non_negative_int: the negative value is not replaced by 0
non_negative_int_NoClamp(val) == IntOf(val)

\* non_negative_int, lines 427-431
non_negative_int(val) ==
    LET v == IntOf(val)
    IN  IF v.raises # "none" THEN v
        ELSE IF v.val < 0 THEN Value(0) ELSE v

Null == <<"n", "u", "l", "l">>

\* int_or_null, lines 444-446: "null" is returned as the string it is
int_or_null(val) ==
    IF RStrip(val, Whitespace) = Null THEN NullString ELSE IntOf(val)

\* int_or_null_inv, lines 448-449
int_or_null_inv(val) == IF val.none THEN Null ELSE Str(val.val)

\* tk.Text.get("1.0", tk.END): the text typed, and the newline Tk ends it with
TextGet(text) == text \o <<"\n">>

\* what the user may type into a text box
Typed == { <<"7">>, <<"-", "3">>, Null, <<"x">> }

\* _GUI._open_advanced_options and _AdvancedOptionsGUI.__init__: the window opens
\* showing the options as they are
OpenAdvancedOptions ==
    /\ Len(dialogs) < MaxDialogs
    /\ dialogs' = Append(dialogs,
                         [architecture |-> advanced_options.architecture,
                          epochs |-> Str(advanced_options.num_epochs),
                          delay |-> int_or_null_inv(advanced_options.delay)])
    /\ calls' = <<>>
    /\ raised' = "none"
    /\ UNCHANGED <<path, label, button_train, advanced_options>>
    /\ UNCHANGED reampVars

\* _LabeledOptionMenu._set: a choice in the architecture menu of window i
SetArchitecture ==
    \E i \in 1..Len(dialogs) : \E a \in Architectures :
        /\ dialogs' = [dialogs EXCEPT ![i].architecture = a]
        /\ calls' = <<>>
        /\ raised' = "none"
        /\ UNCHANGED <<path, label, button_train, advanced_options>>
        /\ UNCHANGED reampVars

\* typing into the epochs box of window i: the tk.Text of _LabeledText
TypeEpochs ==
    \E i \in 1..Len(dialogs) : \E t \in Typed :
        /\ dialogs' = [dialogs EXCEPT ![i].epochs = t]
        /\ UNCHANGED <<path, label, button_train, advanced_options, calls, raised>>
        /\ UNCHANGED reampVars

\* typing into the delay box of window i
TypeDelay ==
    \E i \in 1..Len(dialogs) : \E t \in Typed :
        /\ dialogs' = [dialogs EXCEPT ![i].delay = t]
        /\ UNCHANGED <<path, label, button_train, advanced_options, calls, raised>>
        /\ UNCHANGED reampVars

\* the type a _LabeledText was made with, applied to a value (line 397)
Cast(type, val) ==
    CASE type = "non_negative_int" -> non_negative_int(val)
      [] type = "int_or_null" -> int_or_null(val)

\* _LabeledText.get, lines 393-400: the text cast by the box's type; only a
\* tk.TclError is caught and turned into None, any other exception leaves get
LabeledTextGet(text, type) ==
    LET val == Cast(type, TextGet(text))
    IN  IF val.raises = "TclError" THEN NoValue ELSE val

\* the options after _apply_and_destroy on window d, lines 478-485: each
\* assignment is made unless an exception has left the handler before it
ApplyOptions(ao, d) ==
    LET a1 == [ao EXCEPT !.architecture = d.architecture]
        epochs == LabeledTextGet(d.epochs, "non_negative_int")
        a2 == IF ~epochs.none THEN [a1 EXCEPT !.num_epochs = epochs.val] ELSE a1
        delay == LabeledTextGet(d.delay, "int_or_null")
        a3 == IF ~delay.none
              THEN [a2 EXCEPT !.delay = IF delay.null THEN None ELSE Some(delay.val)]
              ELSE a2
    IN  IF epochs.raises # "none"
        THEN [options |-> a1, raised |-> epochs.raises]
        ELSE IF delay.raises # "none"
             THEN [options |-> a2, raised |-> delay.raises]
             ELSE [options |-> a3, raised |-> "none"]

\* s without its i-th element
Remove(s, i) == SubSeq(s, 1, i - 1) \o SubSeq(s, i + 1, Len(s))

\* _AdvancedOptionsGUI._apply_and_destroy: "Ok" in window i; the window is
\* destroyed by the handler's last line
ApplyAndDestroyWindow(i) ==
    LET r == ApplyOptions(advanced_options, dialogs[i])
    IN  /\ advanced_options' = r.options
        /\ raised' = r.raised
        /\ dialogs' = IF r.raised = "none" THEN Remove(dialogs, i) ELSE dialogs
        /\ calls' = <<>>
        /\ UNCHANGED <<path, label, button_train>>
        /\ UNCHANGED reampVars

ApplyAndDestroy == \E i \in 1..Len(dialogs) : ApplyAndDestroyWindow(i)

(***************************************************************************)
(* The specifications.                                                     *)
(***************************************************************************)
\* the reamp script has not been started
ReampIdle ==
    /\ args = [input_file |-> <<>>, output_file |-> None, target_file |-> None]
    /\ fs = {}
    /\ pc = "idle"
    /\ output_file = None
    /\ x = None
    /\ bits = None
    /\ x_data = None
    /\ model = FALSE
    /\ y = None
    /\ written = None
    /\ plot = FALSE
    /\ outcome = "idle"

\* the path buttons and the Train button of the GUI
PathsNext ==
    \/ PressPathButton
    \/ Train

\* the advanced-options windows of the GUI
AdvancedNext ==
    \/ OpenAdvancedOptions
    \/ SetArchitecture
    \/ TypeEpochs
    \/ TypeDelay
    \/ ApplyAndDestroy

Init == GUIInit /\ ReampIdle
Next == PathsNext \/ AdvancedNext

\* the whole GUI
Spec == Init /\ [][Next]_vars
\* the GUI with the advanced options left as they are
SpecPaths == Init /\ [][PathsNext]_vars
\* the GUI with the paths left as they are
SpecAdvanced == Init /\ [][AdvancedNext]_vars

\* the reamp script, started on a command line
InitReamp == ReampInit /\ GUIInit
SpecReamp == InitReamp /\ [][ReampNext]_vars

(***************************************************************************)
(* The path buttons and the Train button.                                  *)
(***************************************************************************)
\* C1: in every state the Train button is enabled if and only if the input,
\* the output and the destination selections are all non-null; it is
\* disabled in the initial state, where none is set.
C1_TrainEnabledIffAllPathsSet ==
    button_train = "normal" <=> \A b \in PathButtons : ~path[b].none

\* C1's case: all three paths have been chosen and the button is enabled
C1_Witness ==
    /\ \A b \in PathButtons : ~path[b].none
    /\ button_train = "normal"

\* the final "/"-separated segment of a path, and that segment with one
\* trailing ".wav" removed, as C4 states them
FinalSegment(s) ==
    LET slashes == {i \in 1..Len(s) : s[i] = "/"}
        last == IF slashes = {} THEN 0 ELSE CHOOSE i \in slashes : \A j \in slashes : j <= i
    IN  SubSeq(s, last + 1, Len(s))
WithoutOneWav(seg) ==
    IF EndsWith(seg, DotWav) THEN SubSeq(seg, 1, Len(seg) - Len(DotWav)) ELSE seg

\* C4: the model name passed to train and to export is the final segment of
\* the output path with exactly one trailing ".wav" removed; a segment that
\* does not end in ".wav" is passed unchanged.
C4_ModelNameStripsOneTrailingWav ==
    \A k \in 1..Len(calls) :
        /\ calls[k].op = "train" =>
              calls[k].modelname = WithoutOneWav(FinalSegment(calls[k].output_path))
        /\ calls[k].op = "export" =>
              calls[k].modelname = WithoutOneWav(FinalSegment(calls[k - 1].output_path))

\* C7: one Train action trains and exports the chosen files in selection
\* order, each export after its training call has returned and before the
\* next training call, to the destination directory and under the name the
\* training call got; a call starts only when every call before it has
\* returned, so a training call that raises is the last call made: no export
\* for its file, nothing for the later files, the earlier exports made.
C7_TrainThenExportInOrder ==
    LET file_list == path["output"].val
        n == Len(calls)
    IN  calls # <<>> =>
          /\ n <= 2 * Len(file_list)
          /\ \A k \in 1..n :
                IF k % 2 = 1
                THEN /\ calls[k].op = "train"
                     /\ calls[k].output_path = file_list[(k + 1) \div 2]
                     /\ calls[k].train_path = path["destination"].val
                ELSE /\ calls[k].op = "export"
                     /\ calls[k].outdir = path["destination"].val
                     /\ calls[k].modelname = calls[k - 1].modelname
          /\ \A k \in 1..(n - 1) : calls[k].returned
          /\ calls[n].returned => n = 2 * Len(file_list) /\ raised = "none"
          /\ ~calls[n].returned => raised = "Exception"

\* C7's case: the second file's training call raised after the first file
\* was trained and exported
C7_Witness ==
    /\ Len(calls) = 3
    /\ calls[2].op = "export" /\ calls[2].returned
    /\ calls[3].op = "train" /\ ~calls[3].returned
    /\ Len(path["output"].val) >= 2

Entered == -9..100

\* a text that is no integer, and a delay text that is neither one nor "null"
NoInteger(text) == \A n \in Entered : text # Str(n)
NoDelay(text) == NoInteger(text) /\ text # Null

\* the options "Ok" in window d is to store, field by field: the value of a
\* text that parses, the value stored before for one that does not
EpochsToStore(ao, d) ==
    IF NoInteger(d.epochs)
    THEN ao.num_epochs
    ELSE LET n == CHOOSE m \in Entered : d.epochs = Str(m) IN IF n < 0 THEN 0 ELSE n
DelayToStore(ao, d) ==
    IF NoDelay(d.delay)
    THEN ao.delay
    ELSE IF d.delay = Null
         THEN None
         ELSE Some(CHOOSE m \in Entered : d.delay = Str(m))

\* C2: "Ok" with an epochs or delay text that does not parse still completes:
\* no error leaves the handler, the window is closed, the field that does not
\* parse keeps the value stored before and every other field is committed.
C2_OkCompletesOnUnparseableText ==
    [][\A i \in 1..Len(dialogs) :
          (ApplyAndDestroyWindow(i)
             /\ (NoInteger(dialogs[i].epochs) \/ NoDelay(dialogs[i].delay))) =>
                /\ raised' = "none"
                /\ dialogs' = Remove(dialogs, i)
                /\ advanced_options' =
                      [architecture |-> dialogs[i].architecture,
                       num_epochs |-> EpochsToStore(advanced_options, dialogs[i]),
                       delay |-> DelayToStore(advanced_options, dialogs[i])]]_vars

\* C3: "Ok" with texts that parse stores max(0, n) for the integer n entered
\* as epochs and, for the delay, None for "null" and the integer for an
\* integer; the stored num_epochs is never negative.
C3_ParseableTextStored ==
    /\ [][\A i \in 1..Len(dialogs) :
            (ApplyAndDestroyWindow(i)
               /\ ~NoInteger(dialogs[i].epochs) /\ ~NoDelay(dialogs[i].delay)) =>
                  /\ raised' = "none"
                  /\ dialogs' = Remove(dialogs, i)
                  /\ advanced_options'.num_epochs =
                        EpochsToStore(advanced_options, dialogs[i])
                  /\ advanced_options'.delay =
                        DelayToStore(advanced_options, dialogs[i])]_vars
    /\ [](advanced_options.num_epochs >= 0)

\* C3's case: "Ok" was pressed with a negative epochs text and an integer
\* delay text
C3_Witness ==
    /\ advanced_options.num_epochs = 0
    /\ advanced_options.delay = Some(7)
    /\ dialogs = <<>>
    /\ raised = "none"

(***************************************************************************)
(* The reamp script.                                                       *)
(***************************************************************************)
\* the script is past the existence check of lines 55-57 and has not yet
\* written: fs is still what the script was started on
PastCheck == pc \notin {"idle", "resolve", "check"} /\ written.none

\* C5: when the resolved output path exists, the script exits with status 1
\* before it reads the input, loads the model or writes; when it does not
\* exist, the check passes and the script goes on to read the input; with
\* --output_file given and with it omitted.
C5_ExistingOutputSkipped ==
    PastCheck =>
       IF output_file.val \in fs
       THEN /\ outcome = "exit 1"
            /\ x.none /\ ~model /\ written.none
       ELSE outcome \notin {"exit 1", "TypeError"}

\* C6: with --output_file omitted, the output name is the input name with
\* its ".wav" suffix replaced by "_reamped.wav", whatever the stem.
C6_DefaultOutputReplacesSuffix ==
    (args.output_file.none /\ ~output_file.none) =>
        output_file.val = StemOf(args.input_file) \o ReampedWav

\* the target step of lines 74-82 has run: only it stops the script after
\* the output is written
TargetStepDone == pc = "stopped" /\ ~written.none

\* C8: when the target step is reached the output is already written; with
\* --target_file omitted or naming no file, the step reads no target, plots
\* nothing and raises nothing; a plot is made only for a target that is
\* given and is a file, and only after the output is written.
C8_PlotOnlyForExistingTarget ==
    /\ pc = "target" => ~written.none /\ ~plot
    /\ TargetStepDone /\ (args.target_file.none \/ ~IsFile(args.target_file)) =>
          ~plot /\ outcome = "exit 0"
    /\ plot => ~args.target_file.none /\ IsFile(args.target_file) /\ ~written.none

\* C8's case: the target step ran on a --target_file that names no file
C8_Witness ==
    /\ TargetStepDone
    /\ ~args.target_file.none /\ ~IsFile(args.target_file)
    /\ outcome = "exit 0"

\* the exponent of the divisor C10 gives for a sample width
ClaimedExp(sampwidth) ==
    CASE sampwidth = 2 -> 15
      [] sampwidth = 3 -> 23
      [] sampwidth = 4 -> 31

\* C10: the divisor is 2^15, 2^23, 2^31 for sample widths 2, 3, 4; the input
\* is divided and the prediction multiplied by the same divisor; the output
\* is written with the input's rate and sample width; on any other width the
\* script fails at the lookup, before the model is loaded or anything written.
C10_DivisorBySampleWidth ==
    /\ ~x_data.none => x_data.val.divided_by = ClaimedExp(x.val.sampwidth)
    /\ ~written.none =>
          /\ written.val.multiplied_by = x_data.val.divided_by
          /\ written.val.multiplied_by = ClaimedExp(x.val.sampwidth)
          /\ written.val.rate = x.val.rate
          /\ written.val.sampwidth = x.val.sampwidth
    /\ (~x.none /\ x.val.sampwidth \notin {2, 3, 4}) =>
          /\ pc \in {"lookup", "stopped"}
          /\ pc = "stopped" => outcome = "KeyError"
          /\ x_data.none /\ ~model /\ written.none

\* C10's case: a 32-bit input was reamped and written
C10_Witness ==
    /\ ~written.none
    /\ x.val.sampwidth = 4
    /\ written.val.multiplied_by = 31
====
